---------------------------- MODULE Spec2Model ----------------------------
(***************************************************************************)
(* A model of tools/caffe.cpp: the command registry and main(), the device *)
(* selector get_gpus(), and the commands train, test (classification and   *)
(* detection), time, device_query and autotune.                            *)
(*                                                                         *)
(* A command is a sequence of steps; pc is the position of the single      *)
(* control thread.  LOG(FATAL) and a failed CHECK abort the process: the   *)
(* model moves to pc = "aborted" and records the diagnostic in fatal.      *)
(* Calls into the library (Caffe::, Solver, Net) are recorded, in order,   *)
(* in log.                                                                 *)
(***************************************************************************)
EXTENDS Integers, Sequences, FiniteSets, TLC

VARIABLES
  build,        \* the preprocessor configuration the binary was built with
  numDevices,   \* what Caffe::EnumerateDevices(true) returns on this machine
  argc, argv1,  \* main's arguments (argv1 is argv[1])
  FLAGS,        \* the gflags FLAGS_* variables
  g_brew_map,   \* the command registry: the set of registered names
  pc,           \* position of the control thread
  brew,         \* the BrewFunction main dispatched ("" before dispatch)
  ret,          \* the value the dispatched function returned
  exit_status,  \* main's return value (-1 while running)
  fatal,        \* diagnostic of the LOG(FATAL)/CHECK that aborted ("" if none)
  gpus0,        \* the caller's list as it was passed to get_gpus
  gpus,         \* vector<int> gpus of the running command
  solver_param, \* caffe::SolverParameter of train
  log,          \* library calls made so far, in order
  num_outputs,  \* number of output blobs of the net (result.size())
  iter,         \* the loop counter i of the running loop
  fwd,          \* what caffe_net.Forward returned, one entry per call so far
  all_true_pos, \* test_detection: output index -> label -> <<score, tp>> list
  all_false_pos,\* test_detection: output index -> label -> <<score, fp>> list
  all_num_pos,  \* test_detection: output index -> label -> positives count
  APs,          \* test_detection: output index -> label -> the AP of ComputeAP
  mAPs,         \* test_detection: output index -> the mAP logged for it
  warnings,     \* test_detection: the <<output index, label>> warnings logged
  test_score,   \* test: the running sums
  test_score_output_id, \* test: the output blob of each running sum
  loss,         \* test: the cumulative loss, then the mean loss
  mean_score,   \* test: the means logged, one per running sum
  num_layers,   \* number of layers of the net (layers.size())
  net_scores,   \* the scalars the output blobs of the net can hold
  net_cost,     \* microseconds each layer call and each barrier takes
  phase,        \* time: the phase of the net
  clock,        \* the wall clock, in microseconds
  forward_time, \* time: double forward_time
  backward_time,\* time: double backward_time
  forward_time_per_layer,  \* time: the per-layer forward table
  backward_time_per_layer, \* time: the per-layer backward table
  time_report   \* time: the averages and the total logged at the end

\* the environment of one process: never changes
envVars == <<build, numDevices, argc, argv1>>
\* the state of the running command
cmdVars == <<FLAGS, gpus0, gpus, solver_param>>
\* the state of test_detection
detVars == <<all_true_pos, all_false_pos, all_num_pos, APs, mAPs, warnings>>
\* the state of the classification branch of test
clsVars == <<test_score, test_score_output_id, loss, mean_score>>
\* the state of the evaluation loops
\* the state of time
timeVars == <<phase, clock, forward_time, backward_time,
              forward_time_per_layer, backward_time_per_layer, time_report>>
\* the state of the evaluation and benchmark loops
evalVars == <<iter, fwd, detVars, clsVars, timeVars>>
\* the net the model file describes
netVars == <<num_outputs, num_layers, net_cost, net_scores>>

vars == <<envVars, cmdVars, g_brew_map, pc, brew, ret, exit_status, fatal, log,
          netVars, evalVars>>

---------------------------------------------------------------------------
(* Bounds of the model. *)

\* longest device specifier explored by the device selector specification
MaxGpuLen == 4
\* largest number of devices the machine enumerates
MaxDevices == 2

---------------------------------------------------------------------------
(* Build configurations: the #ifdef symbols the file tests. *)

\* CPU-only; OpenCL (GreenTea) with LibDNN and without CUDA; CUDA without
\* NCCL; CUDA with NCCL and LibDNN.
Builds ==
  { [CPU_ONLY |-> TRUE,  USE_CUDA |-> FALSE, USE_NCCL |-> FALSE,
     USE_GREENTEA |-> FALSE, USE_LIBDNN |-> FALSE],
    [CPU_ONLY |-> FALSE, USE_CUDA |-> FALSE, USE_NCCL |-> FALSE,
     USE_GREENTEA |-> TRUE, USE_LIBDNN |-> TRUE],
    [CPU_ONLY |-> FALSE, USE_CUDA |-> TRUE,  USE_NCCL |-> FALSE,
     USE_GREENTEA |-> FALSE, USE_LIBDNN |-> FALSE],
    [CPU_ONLY |-> FALSE, USE_CUDA |-> TRUE,  USE_NCCL |-> TRUE,
     USE_GREENTEA |-> FALSE, USE_LIBDNN |-> TRUE] }

---------------------------------------------------------------------------
(* Strings that are parsed are sequences of characters. *)

GpuChars == {"a", "l", ",", "0", "1", "-", "+"}
DigitChars == <<"0", "1", "2", "3", "4", "5", "6", "7", "8", "9">>

StrAll == <<"a", "l", "l">>

IsDigit(c) == \E d \in 1..10 : DigitChars[d] = c
DigitVal(c) == (CHOOSE d \in 1..10 : DigitChars[d] = c) - 1

\* boost::split(strings, s, boost::is_any_of(",")): the tokens between the
\* commas, empty tokens kept; the empty string gives one empty token.
RECURSIVE SplitFrom(_, _, _)
SplitFrom(s, k, tok) ==
  IF k > Len(s) THEN <<tok>>
  ELSE IF s[k] = "," THEN <<tok>> \o SplitFrom(s, k + 1, <<>>)
  ELSE SplitFrom(s, k + 1, Append(tok, s[k]))

split(s) == SplitFrom(s, 1, <<>>)

\* The digits of a token as a number, most significant first.
RECURSIVE DigitsValue(_, _)
DigitsValue(tok, acc) ==
  IF tok = <<>> THEN acc
  ELSE DigitsValue(Tail(tok), 10 * acc + DigitVal(Head(tok)))

\* boost::lexical_cast<int>(token): an optional sign and at least one digit,
\* nothing else; anything else throws bad_lexical_cast.
lexical_cast_ok(tok) ==
  LET body == IF tok # <<>> /\ Head(tok) \in {"-", "+"} THEN Tail(tok) ELSE tok
  IN  body # <<>> /\ \A k \in 1..Len(body) : IsDigit(body[k])

lexical_cast_int(tok) ==
  IF Head(tok) = "-" THEN 0 - DigitsValue(Tail(tok), 0)
  ELSE IF Head(tok) = "+" THEN DigitsValue(Tail(tok), 0)
  ELSE DigitsValue(tok, 0)

\* boost::lexical_cast<string>(n) for the device ids of a solver file.
lexical_cast_string(n) == <<DigitChars[n + 1]>>

---------------------------------------------------------------------------
(* float arithmetic. *)

\* float: a single-precision value v >= 0 is written as the integer v * 2^25,
\* which is exact for every value the evaluation meets here (the floats of
\* [0.25, 0.5) are 2^-25 apart).  The significand has FLT_MANT_DIG bits.
FLT_MANT_DIG == 24

RECURSIVE Pow2(_)
Pow2(k) == IF k = 0 THEN 1 ELSE 2 * Pow2(k - 1)

\* 1.0f
FloatOne == Pow2(25)

\* 0.0f / 0
NaN == -1

\* a / b to the nearest integer, ties to the even one
RoundHalfEven(a, b) ==
  LET q == a \div b
      r == a % b
  IN IF 2 * r < b THEN q
     ELSE IF 2 * r > b THEN q + 1
     ELSE IF q % 2 = 0 THEN q ELSE q + 1

\* The least k >= 0 for which a / n has a significand of FLT_MANT_DIG bits
\* when it is counted in steps of 2^k.
RECURSIVE Exponent(_, _, _)
Exponent(a, n, k) ==
  IF a < n * Pow2(FLT_MANT_DIG + k) THEN k ELSE Exponent(a, n, k + 1)

\* float / int: the quotient rounded to the nearest float.  (A quotient in
\* (0, 0.25) would need a finer grid; the scalars here are >= 1.0 and
\* FLAGS_iterations <= 3, so there is none.)
float_div(a, n) ==
  IF n = 0 THEN NaN
  ELSE LET k == Exponent(a, n, 0)
       IN RoundHalfEven(a, n * Pow2(k)) * Pow2(k)

\* float += float: the sum rounded to the nearest float
float_add(a, b) == float_div(a + b, 1)

---------------------------------------------------------------------------
(* get_gpus: parse GPU ids or use all available devices. *)

\* The loop over the tokens, but an id already in the list is not pushed.
RECURSIVE PushTokensDedup(_, _)
PushTokensDedup(strings, acc) ==
  IF strings = <<>> THEN [fatal |-> "", gpus |-> acc]
  ELSE IF ~lexical_cast_ok(Head(strings))
       THEN [fatal |-> "bad_lexical_cast", gpus |-> acc]
       ELSE PushTokensDedup(Tail(strings),
              IF \E k \in 1..Len(acc) : acc[k] = lexical_cast_int(Head(strings))
              THEN acc
              ELSE Append(acc, lexical_cast_int(Head(strings))))

\* The for loop over the tokens: push_back each parsed id; the first token
\* that does not parse throws.
RECURSIVE PushTokens(_, _)
PushTokens(strings, acc) ==
  IF strings = <<>> THEN [fatal |-> "", gpus |-> acc]
  ELSE IF ~lexical_cast_ok(Head(strings))
       THEN [fatal |-> "bad_lexical_cast", gpus |-> acc]
       ELSE PushTokens(Tail(strings),
                       Append(acc, lexical_cast_int(Head(strings))))

\* for (int i = 0; i < count; ++i) gpus->push_back(i);
RECURSIVE PushAll(_, _, _)
PushAll(i, count, acc) ==
  IF i < count THEN PushAll(i + 1, count, Append(acc, i)) ELSE acc

\* NO_GPU is LOG(FATAL) << "Cannot use GPU in CPU-only Caffe".
get_gpus(flag, list, bld, count) ==
  IF flag = StrAll
  THEN IF bld.CPU_ONLY
       THEN [fatal |-> "NO_GPU", gpus |-> list]
       ELSE [fatal |-> "", gpus |-> PushAll(0, count, list)]
  ELSE IF Len(flag) > 0
       THEN PushTokens(split(flag), list)
       ELSE IF Len(list) = 0
            THEN [fatal |-> "", gpus |-> list]
            ELSE [fatal |-> "CHECK_EQ(gpus->size(), 0)", gpus |-> list]

---------------------------------------------------------------------------
(* The flags (DEFINE_string, DEFINE_int32, DEFINE_bool) at their defaults. *)

FlagDefaults ==
  [gpu |-> <<>>, solver |-> <<>>, model |-> <<>>, phase |-> "",
   snapshot |-> <<>>, weights |-> <<>>, iterations |-> 50,
   sigint_effect |-> "stop", sighup_effect |-> "snapshot",
   lt |-> FALSE, detection |-> FALSE, ap |-> "11point"]

\* One library call: its name, its integer arguments, its string argument.
Ev(call, n, s) == [call |-> call, n |-> n, s |-> s]

\* LOG(FATAL), a failed CHECK and an uncaught exception end the process by
\* abort(): the shell sees status 134.
Abort(msg) ==
  /\ pc' = "aborted"
  /\ fatal' = msg
  /\ exit_status' = 134

---------------------------------------------------------------------------
(* The registry and main. *)

\* The RegisterBrewFunction(...) lines, in the order of the file.
RegOrder == <<"actions", "device_query", "train", "test", "time", "autotune">>

\* A static initializer __Registerer_func: g_brew_map[#func] = &func.
RegisterBrewFunction ==
  /\ pc = "static_init"
  /\ Cardinality(g_brew_map) < Len(RegOrder)
  /\ g_brew_map' = g_brew_map \cup {RegOrder[Cardinality(g_brew_map) + 1]}
  /\ UNCHANGED <<envVars, cmdVars, pc, brew, ret, exit_status, fatal, log,
                 netVars, evalVars>>

\* main up to the test of argc; without a command it shows the usage and
\* returns 0.
main ==
  /\ pc = "static_init"
  /\ Cardinality(g_brew_map) = Len(RegOrder)
  /\ IF argc = 2
     THEN /\ pc' = "GetBrewFunction"
          /\ UNCHANGED <<exit_status, log>>
     ELSE /\ pc' = "exited"
          /\ exit_status' = 0
          /\ log' = Append(log, Ev("ShowUsageWithFlagsRestrict", <<>>, <<>>))
  /\ UNCHANGED <<envVars, cmdVars, g_brew_map, brew, ret, fatal, netVars,
                 evalVars>>

\* GetBrewFunction(name): the registered function, or, for an unknown name,
\* an error line and g_brew_map["actions"].
GetBrewFunction(name) ==
  IF name \in g_brew_map THEN name ELSE "actions"

\* return GetBrewFunction(argv[1])() ...: the lookup and the call.
main_dispatch ==
  /\ pc = "GetBrewFunction"
  /\ brew' = GetBrewFunction(argv1)
  /\ pc' = brew'
  /\ log' = IF argv1 \in g_brew_map THEN log
            ELSE Append(log, Ev("LOG(ERROR) Unknown action", <<>>, <<>>))
  /\ UNCHANGED <<envVars, cmdVars, g_brew_map, ret, exit_status, fatal,
                 netVars, evalVars>>

\* ... != 0: the status main returns for what the function returned.
main_status(r) == IF r # 0 THEN 1 ELSE 0

main_return ==
  /\ pc = "returned"
  /\ exit_status' = main_status(ret)
  /\ pc' = "exited"
  /\ UNCHANGED <<envVars, cmdVars, g_brew_map, brew, ret, fatal, log,
                 netVars, evalVars>>

\* int actions(): list the registered names, return 0.
actions ==
  /\ pc = "actions"
  /\ log' = Append(log, Ev("LOG(ERROR) Available caffe actions", <<>>, <<>>))
  /\ ret' = 0
  /\ pc' = "returned"
  /\ UNCHANGED <<envVars, cmdVars, g_brew_map, brew, exit_status, fatal,
                 netVars, evalVars>>

\* The steps of a command leave the process environment, the registry and
\* main's dispatch alone.
Frame == UNCHANGED <<envVars, g_brew_map, brew, netVars>>

\* The steps outside the evaluation loops leave their state alone.
NoEval == UNCHANGED evalVars

---------------------------------------------------------------------------
(* device_query: show diagnostic information for the given devices. *)

\* for (i ...) { SetDevice(gpus[i]); DeviceQuery(); }
RECURSIVE QueryEach(_)
QueryEach(g) ==
  IF g = <<>> THEN <<>>
  ELSE <<Ev("SetDevice", <<Head(g)>>, <<>>), Ev("DeviceQuery", <<>>, <<>>)>>
       \o QueryEach(Tail(g))

\* TeardownDevice(gpus[0]) under USE_GREENTEA when the default device is an
\* OpenCL one (ocl says whether it is).
Teardown(g, ocl) ==
  IF build.USE_GREENTEA /\ ocl /\ Len(g) > 0 /\ g[1] >= 0
  THEN <<Ev("TeardownDevice", <<g[1]>>, <<>>)>>
  ELSE <<>>

device_query ==
  /\ pc = "device_query"
  /\ IF Len(FLAGS.gpu) = 0 \/ FLAGS.gpu = StrAll
     THEN /\ log' = Append(log, Ev("EnumerateDevices", <<>>, <<>>))
          /\ ret' = 0
          /\ pc' = "returned"
          /\ UNCHANGED <<gpus0, gpus, exit_status, fatal>>
     ELSE IF build.CPU_ONLY
     THEN /\ ret' = 0
          /\ pc' = "returned"
          /\ UNCHANGED <<gpus0, gpus, exit_status, fatal, log>>
     ELSE LET r == get_gpus(FLAGS.gpu, <<>>, build, numDevices) IN
          /\ gpus0' = <<>>
          /\ gpus' = r.gpus
          /\ IF r.fatal # ""
             THEN /\ Abort(r.fatal)
                  /\ UNCHANGED <<ret, log>>
             ELSE \E ocl \in BOOLEAN :
                  /\ log' = log \o <<Ev("SetDevices", r.gpus, <<>>)>>
                                \o QueryEach(r.gpus) \o Teardown(r.gpus, ocl)
                  /\ ret' = 0
                  /\ pc' = "returned"
                  /\ UNCHANGED <<exit_status, fatal>>
  /\ UNCHANGED <<FLAGS, solver_param>>
  /\ Frame
  /\ NoEval

---------------------------------------------------------------------------
(* train: train or finetune a model. *)

\* most evaluation nets a solver holds (solver->test_nets().size())
MaxTestNets == 1

\* What a solver file can say that train looks at: the solver mode, the
\* device id, and the number of test nets the solver will hold.
SolverParams ==
  [mode_gpu : BOOLEAN, has_device_id : BOOLEAN, device_id : 0..1,
   test_nets : 0..MaxTestNets]

NoSolverParam ==
  [mode_gpu |-> FALSE, has_device_id |-> FALSE, device_id |-> 0, test_nets |-> 0]

\* GetRequestedAction: the enumeration for "stop", "snapshot", "none";
\* anything else is LOG(FATAL).
GetRequestedAction(flag_value) ==
  IF flag_value = "stop" THEN "STOP"
  ELSE IF flag_value = "snapshot" THEN "SNAPSHOT"
  ELSE IF flag_value = "none" THEN "NONE"
  ELSE "FATAL"

\* train with the second CHECK left out.
train_without_exclusion ==
  /\ pc = "train"
  /\ IF ~(Len(FLAGS.solver) > 0)
     THEN Abort("Need a solver definition to train.")
     ELSE /\ pc' = "train_read"
          /\ UNCHANGED <<fatal, exit_status>>
  /\ UNCHANGED <<cmdVars, ret, log, netVars, envVars, g_brew_map, brew, evalVars>>

\* The two CHECKs at the head of train.
train ==
  /\ pc = "train"
  /\ IF ~(Len(FLAGS.solver) > 0)
     THEN Abort("Need a solver definition to train.")
     ELSE IF ~(Len(FLAGS.snapshot) = 0 \/ Len(FLAGS.weights) = 0)
     THEN Abort("Give a snapshot to resume training or weights to finetune but not both.")
     ELSE /\ pc' = "train_read"
          /\ UNCHANGED <<fatal, exit_status>>
  /\ UNCHANGED <<cmdVars, ret, log>>
  /\ Frame
  /\ NoEval

\* ReadSolverParamsFromTextFileOrDie, then the level and the stages, then
\* the mode and the device of the solver file when no -gpu was given.
train_read ==
  /\ pc = "train_read"
  /\ \/ /\ Abort("ReadSolverParamsFromTextFileOrDie")
        /\ UNCHANGED <<cmdVars, log>>
     \/ \E sp \in SolverParams :
        /\ sp.has_device_id \/ sp.device_id = 0
        /\ solver_param' = sp
        /\ FLAGS' = IF Len(FLAGS.gpu) = 0 /\ sp.mode_gpu
                    THEN IF sp.has_device_id
                         THEN [FLAGS EXCEPT !.gpu = lexical_cast_string(sp.device_id)]
                         ELSE [FLAGS EXCEPT !.gpu = lexical_cast_string(0)]
                    ELSE FLAGS
        /\ log' = Append(log, Ev("ReadSolverParamsFromTextFile", <<>>, FLAGS.solver))
        /\ pc' = "train_gpus"
        /\ UNCHANGED <<gpus0, gpus, fatal, exit_status>>
  /\ UNCHANGED ret
  /\ Frame
  /\ NoEval

\* vector<int> gpus; get_gpus(&gpus);
train_gpus ==
  /\ pc = "train_gpus"
  /\ LET r == get_gpus(FLAGS.gpu, <<>>, build, numDevices) IN
     /\ gpus0' = <<>>
     /\ gpus' = r.gpus
     /\ IF r.fatal # ""
        THEN Abort(r.fatal)
        ELSE /\ pc' = "train_devices"
             /\ UNCHANGED <<fatal, exit_status>>
  /\ UNCHANGED <<FLAGS, solver_param, ret, log>>
  /\ Frame
  /\ NoEval

\* CPU mode without devices; otherwise, unless CPU_ONLY, load the devices,
\* make the first one the solver's and the current one, set GPU mode and
\* the solver count.
train_devices ==
  /\ pc = "train_devices"
  /\ IF Len(gpus) = 0
     THEN /\ log' = Append(log, Ev("set_mode(CPU)", <<>>, <<>>))
          /\ UNCHANGED solver_param
     ELSE IF build.CPU_ONLY
     THEN UNCHANGED <<log, solver_param>>
     ELSE /\ log' = log \o <<Ev("SetDevices", gpus, <<>>),
                             Ev("SetDevice", <<gpus[1]>>, <<>>),
                             Ev("set_mode(GPU)", <<>>, <<>>),
                             Ev("set_solver_count", <<Len(gpus)>>, <<>>)>>
          /\ solver_param' = [solver_param EXCEPT !.has_device_id = TRUE,
                                                  !.device_id = gpus[1]]
  /\ pc' = "train_signal"
  /\ UNCHANGED <<FLAGS, gpus0, gpus, ret, fatal, exit_status>>
  /\ Frame
  /\ NoEval

\* caffe::SignalHandler signal_handler(GetRequestedAction(FLAGS_sigint_effect),
\*                                     GetRequestedAction(FLAGS_sighup_effect));
train_signal ==
  /\ pc = "train_signal"
  /\ IF GetRequestedAction(FLAGS.sigint_effect) = "FATAL"
        \/ GetRequestedAction(FLAGS.sighup_effect) = "FATAL"
     THEN /\ Abort("Invalid signal effect")
          /\ UNCHANGED log
     ELSE /\ log' = Append(log, Ev("SignalHandler", <<>>, <<>>))
          /\ pc' = "train_solver"
          /\ UNCHANGED <<fatal, exit_status>>
  /\ UNCHANGED <<cmdVars, ret>>
  /\ Frame
  /\ NoEval

\* solver(SolverRegistry<float>::CreateSolver(solver_param)), then
\* solver->SetActionFunction(signal_handler.GetActionFunction()).
train_solver ==
  /\ pc = "train_solver"
  /\ log' = log \o <<Ev("CreateSolver", <<>>, <<>>),
                      Ev("SetActionFunction", <<>>, <<>>)>>
  /\ pc' = "train_restore"
  /\ UNCHANGED <<cmdVars, ret, fatal, exit_status>>
  /\ Frame
  /\ NoEval

\* CopyLayers: for each name of the list, the train net and then every
\* test net copy the trained layers from it.
RECURSIVE CopyTestNets(_, _, _)
CopyTestNets(j, n, name) ==
  IF j < n
  THEN <<Ev("test_nets.CopyTrainedLayersFrom", <<j>>, name)>>
       \o CopyTestNets(j + 1, n, name)
  ELSE <<>>

RECURSIVE CopyEach(_, _)
CopyEach(model_names, n) ==
  IF model_names = <<>> THEN <<>>
  ELSE <<Ev("net.CopyTrainedLayersFrom", <<>>, Head(model_names))>>
       \o CopyTestNets(0, n, Head(model_names))
       \o CopyEach(Tail(model_names), n)

CopyLayers(model_list, n) == CopyEach(split(model_list), n)

\* Restore from the snapshot, else copy the weights, else neither.
train_restore ==
  /\ pc = "train_restore"
  /\ log' = IF Len(FLAGS.snapshot) > 0
            THEN Append(log, Ev("Restore", <<>>, FLAGS.snapshot))
            ELSE IF Len(FLAGS.weights) > 0
            THEN log \o CopyLayers(FLAGS.weights, solver_param.test_nets)
            ELSE log
  /\ pc' = "train_solve"
  /\ UNCHANGED <<cmdVars, ret, fatal, exit_status>>
  /\ Frame
  /\ NoEval

\* The solve: with more than one device NCCL's Run under USE_CUDA and
\* USE_NCCL, LOG(FATAL) under USE_CUDA alone, and nothing at all without
\* USE_CUDA; with at most one device solver->Solve().
TrainSolve(g, bld) ==
  IF Len(g) > 1
  THEN IF bld.USE_CUDA
       THEN IF bld.USE_NCCL THEN "NCCL.Run" ELSE "FATAL"
       ELSE "nothing"
  ELSE "Solve"

train_solve ==
  /\ pc = "train_solve"
  /\ LET what == TrainSolve(gpus, build) IN
     IF what = "FATAL"
     THEN /\ Abort("Multi-GPU execution not available - rebuild with USE_NCCL")
          /\ UNCHANGED log
     ELSE /\ log' = IF what = "nothing" THEN log
                    ELSE Append(log, Ev(what, gpus, FLAGS.snapshot))
          /\ pc' = "train_done"
          /\ UNCHANGED <<fatal, exit_status>>
  /\ UNCHANGED <<cmdVars, ret>>
  /\ Frame
  /\ NoEval

\* LOG(INFO) << "Optimization Done."; the teardown; return 0.
train_done ==
  /\ pc = "train_done"
  /\ \E ocl \in BOOLEAN :
       log' = Append(log, Ev("Optimization Done.", <<>>, <<>>))
              \o Teardown(gpus, ocl)
  /\ ret' = 0
  /\ pc' = "returned"
  /\ UNCHANGED <<cmdVars, fatal, exit_status>>
  /\ Frame
  /\ NoEval

TrainNext ==
  \/ train
  \/ train_read
  \/ train_gpus
  \/ train_devices
  \/ train_signal
  \/ train_solver
  \/ train_restore
  \/ train_solve
  \/ train_done

\* The flags explored for train.
TrainGpuFlags ==
  {<<>>, StrAll, <<"0">>, <<"1", ",", "0">>, <<"0", ",", "a">>}

TrainFlags ==
  { [FlagDefaults EXCEPT !.solver = so, !.snapshot = sn, !.weights = w,
                         !.gpu = g, !.sigint_effect = si, !.sighup_effect = sh] :
      so \in {<<>>, <<"p">>}, sn \in {<<>>, <<"s">>},
      w \in {<<>>, <<"w">>, <<"w", ",", "v">>}, g \in TrainGpuFlags,
      si \in {"stop", "bogus"}, sh \in {"snapshot", "none", "bogus"} }

\* The net of a command that looks at neither its outputs nor its layers.
NoNet ==
  /\ num_outputs = 1
  /\ net_scores = {2 * FloatOne}
  /\ num_layers = 1
  /\ net_cost = [f |-> <<1>>, b |-> <<1>>, sync |-> 0]

\* The state of a process whose main has just dispatched the function f.
Dispatched(f) ==
  /\ argc = 2
  /\ argv1 = f
  /\ g_brew_map = {RegOrder[k] : k \in 1..Len(RegOrder)}
  /\ pc = f
  /\ brew = f
  /\ ret = -1
  /\ exit_status = -1
  /\ fatal = ""
  /\ gpus0 = <<>>
  /\ gpus \in IF f = "get_gpus" THEN {<<>>, <<7>>} ELSE {<<>>}
  /\ solver_param = NoSolverParam
  /\ log = <<>>
  /\ iter = 0
  /\ fwd = <<>>
  /\ all_true_pos = <<>>
  /\ all_false_pos = <<>>
  /\ all_num_pos = <<>>
  /\ APs = <<>>
  /\ mAPs = <<>>
  /\ warnings = {}
  /\ test_score = <<>>
  /\ test_score_output_id = <<>>
  /\ loss = 0
  /\ mean_score = <<>>
  /\ phase = ""
  /\ clock = 0
  /\ forward_time = 0
  /\ backward_time = 0
  /\ forward_time_per_layer = <<>>
  /\ backward_time_per_layer = <<>>
  /\ time_report = <<>>

TrainInit ==
  /\ Dispatched("train")
  /\ build \in Builds
  /\ numDevices \in 0..MaxDevices
  /\ FLAGS \in TrainFlags
  /\ NoNet

SpecTrain == TrainInit /\ [][TrainNext]_vars

---------------------------------------------------------------------------
(* test: score a model.  The head of the command. *)

\* std::map: m[k] = v
Put(m, k, v) == [x \in DOMAIN m \cup {k} |-> IF x = k THEN v ELSE m[x]]

\* std::map: m[k] of operator[], which makes an empty entry when there is none
At(m, k) == IF k \in DOMAIN m THEN m[k] ELSE <<>>

\* The two CHECKs at the head of test.
test ==
  /\ pc = "test"
  /\ IF ~(Len(FLAGS.model) > 0)
     THEN Abort("Need a model definition to score.")
     ELSE IF ~(Len(FLAGS.weights) > 0)
     THEN Abort("Need model weights to score.")
     ELSE /\ pc' = "test_gpus"
          /\ UNCHANGED <<fatal, exit_status>>
  /\ UNCHANGED <<cmdVars, ret, log>>
  /\ Frame
  /\ NoEval

test_gpus ==
  /\ pc = "test_gpus"
  /\ LET r == get_gpus(FLAGS.gpu, <<>>, build, numDevices) IN
     /\ gpus0' = <<>>
     /\ gpus' = r.gpus
     /\ IF r.fatal # ""
        THEN Abort(r.fatal)
        ELSE /\ pc' = "test_devices"
             /\ UNCHANGED <<fatal, exit_status>>
  /\ UNCHANGED <<FLAGS, solver_param, ret, log>>
  /\ Frame
  /\ NoEval

\* Set device id and mode, as test and time do it.
SetDeviceAndMode(g, bld) ==
  IF Len(g) # 0
  THEN IF bld.CPU_ONLY THEN <<>>
       ELSE <<Ev("SetDevices", g, <<>>), Ev("set_mode(GPU)", <<>>, <<>>),
              Ev("SetDevice", <<g[1]>>, <<>>)>>
  ELSE <<Ev("set_mode(CPU)", <<>>, <<>>)>>

test_devices ==
  /\ pc = "test_devices"
  /\ log' = log \o SetDeviceAndMode(gpus, build)
  /\ pc' = "test_net"
  /\ UNCHANGED <<cmdVars, ret, fatal, exit_status>>
  /\ Frame
  /\ NoEval

\* Instantiate the net, load the weights, and branch on FLAGS_detection.
test_net ==
  /\ pc = "test_net"
  /\ log' = log \o <<Ev("Net", <<>>, FLAGS.model),
                      Ev("CopyTrainedLayersFrom", <<>>, FLAGS.weights)>>
  /\ pc' = IF FLAGS.detection THEN "test_detection" ELSE "test_forward"
  /\ UNCHANGED <<cmdVars, ret, fatal, exit_status>>
  /\ Frame
  /\ NoEval

---------------------------------------------------------------------------
(* test_detection: the accumulation loop. *)

\* most rows the net emits in one detection run
MaxRows == 3

\* The floats of a result blob are written in tenths: 9 is 0.9, -10 is -1.
\* static_cast<int>(float) truncates towards zero.
static_cast_int(x) == IF x >= 0 THEN x \div 10 ELSE 0 - ((0 - x) \div 10)

\* The rows <<item_id, label, score or count, tp, fp>> the modelled net can
\* emit: sentinels for the labels 5 (3 and 2 positives) and 7, and
\* detections of label 5 that are a true positive, a false positive, and
\* one matched to a difficult box.
DetRows ==
  { <<-10, 50, 30, -10, -10>>, <<-10, 50, 20, -10, -10>>,
    <<-10, 70, 10, -10, -10>>,
    <<0, 50, 9, 10, 0>>, <<0, 50, 8, 0, 10>>, <<0, 50, 5, 0, 0>> }

\* ScanRow with line 337 changed: a later sentinel of a label replaces the
\* count instead of adding to it.
ScanRow_overwriting(st, j, row) ==
  LET item_id == static_cast_int(row[1])
      label == static_cast_int(row[2])
  IN
  IF item_id = -1
  THEN LET np == At(st.num_pos, j)
           n == static_cast_int(row[3])
       IN [st EXCEPT !.num_pos =
             Put(st.num_pos, j,
                 IF label \notin DOMAIN np THEN Put(np, label, n)
                 ELSE Put(np, label, n))]
  ELSE LET score == row[3]
           tp == static_cast_int(row[4])
           fp == static_cast_int(row[5])
       IN IF tp = 0 /\ fp = 0 THEN st
          ELSE [st EXCEPT
                 !.true_pos = Put(st.true_pos, j,
                    Put(At(st.true_pos, j), label,
                        Append(At(At(st.true_pos, j), label), <<score, tp>>))),
                 !.false_pos = Put(st.false_pos, j,
                    Put(At(st.false_pos, j), label,
                        Append(At(At(st.false_pos, j), label), <<score, fp>>)))]

\* Lines 330-351: one row k of the output blob j.
ScanRow(st, j, row) ==
  LET item_id == static_cast_int(row[1])
      label == static_cast_int(row[2])
  IN
  IF item_id = -1
  THEN LET np == At(st.num_pos, j)
           n == static_cast_int(row[3])
       IN [st EXCEPT !.num_pos =
             Put(st.num_pos, j,
                 IF label \notin DOMAIN np THEN Put(np, label, n)
                 ELSE Put(np, label, np[label] + n))]
  ELSE LET score == row[3]
           tp == static_cast_int(row[4])
           fp == static_cast_int(row[5])
       IN IF tp = 0 /\ fp = 0 THEN st
          ELSE [st EXCEPT
                 !.true_pos = Put(st.true_pos, j,
                    Put(At(st.true_pos, j), label,
                        Append(At(At(st.true_pos, j), label), <<score, tp>>))),
                 !.false_pos = Put(st.false_pos, j,
                    Put(At(st.false_pos, j), label,
                        Append(At(At(st.false_pos, j), label), <<score, fp>>)))]

\* for (int k = 0; k < num_det; ++k)
RECURSIVE ScanBlob(_, _, _)
ScanBlob(st, j, rows) ==
  IF rows = <<>> THEN st
  ELSE ScanBlob(ScanRow(st, j, Head(rows)), j, Tail(rows))

\* for (int j = 0; j < result.size(); ++j)
RECURSIVE ScanResult(_, _, _)
ScanResult(st, j, result) ==
  IF j >= Len(result) THEN st
  ELSE ScanResult(ScanBlob(st, j, result[j + 1]), j + 1, result)

\* Number of rows of the results so far.
RECURSIVE RowsOf(_)
RowsOf(results) ==
  IF results = <<>> THEN 0
  ELSE Len(Head(results)[1])
       + (IF Len(Head(results)) > 1 THEN Len(Head(results)[2]) ELSE 0)
       + RowsOf(Tail(results))

\* One iteration of the loop of lines 321-354: a forward pass and the scan
\* of every row of every output blob; after FLAGS_iterations passes, on to
\* the report.
test_detection ==
  /\ pc = "test_detection"
  /\ IF iter < FLAGS.iterations
     THEN \E k1 \in 0..(MaxRows - RowsOf(fwd)) :
          \E k2 \in 0..(IF num_outputs > 1 THEN MaxRows - RowsOf(fwd) - k1 ELSE 0) :
          \E b1 \in [1..k1 -> DetRows], b2 \in [1..k2 -> DetRows] :
          LET result == IF num_outputs > 1 THEN <<b1, b2>> ELSE <<b1>>
              st == ScanResult([true_pos |-> all_true_pos,
                                false_pos |-> all_false_pos,
                                num_pos |-> all_num_pos], 0, result)
          IN /\ fwd' = Append(fwd, result)
             /\ all_true_pos' = st.true_pos
             /\ all_false_pos' = st.false_pos
             /\ all_num_pos' = st.num_pos
             /\ iter' = iter + 1
             /\ log' = Append(log, Ev("Forward", <<>>, <<>>))
             /\ UNCHANGED pc
     ELSE /\ iter' = 0
          /\ pc' = "test_detection_report"
          /\ UNCHANGED <<fwd, all_true_pos, all_false_pos, all_num_pos, log>>
  /\ UNCHANGED <<cmdVars, ret, fatal, exit_status, APs, mAPs, warnings, clsVars,
                 timeVars>>
  /\ Frame

---------------------------------------------------------------------------
(* test_detection: the report. *)

\* The values caffe::ComputeAP can store in APs[label], in hundredths.
APVals == {0, 50, 100}

\* What a call of caffe::ComputeAP can do: store one of APVals, or end the
\* process in one of its own checks (written -1).
APOutcomes == APVals \cup {-1}

Min(S) == CHOOSE x \in S : \A y \in S : x <= y

\* LabelLoop without the LOG(WARNING) of lines 379 and 385: a label without
\* records is skipped silently.
RECURSIVE LabelLoop_silent(_, _, _, _, _)
LabelLoop_silent(labels, true_pos, false_pos, out, acc) ==
  IF labels = {} \/ acc.fatal # "" THEN acc
  ELSE LET label == Min(labels)
           rest == labels \ {label}
       IN IF label \notin DOMAIN true_pos \/ label \notin DOMAIN false_pos
          THEN LabelLoop_silent(rest, true_pos, false_pos, out,
                         acc)
          ELSE IF out[label] = -1
          THEN LabelLoop_silent(rest, true_pos, false_pos, out,
                         [acc EXCEPT !.fatal = "caffe::ComputeAP"])
          ELSE LabelLoop_silent(rest, true_pos, false_pos, out,
                         [acc EXCEPT !.APs = Put(acc.APs, label, out[label]),
                                     !.mAP = acc.mAP + out[label]])

\* Lines 374-394: the labels of num_pos in the order of the map; a label
\* without records is a warning and is skipped, the others add the AP that
\* ComputeAP stores for them (out[label]).
RECURSIVE LabelLoop(_, _, _, _, _)
LabelLoop(labels, true_pos, false_pos, out, acc) ==
  IF labels = {} \/ acc.fatal # "" THEN acc
  ELSE LET label == Min(labels)
           rest == labels \ {label}
       IN IF label \notin DOMAIN true_pos \/ label \notin DOMAIN false_pos
          THEN LabelLoop(rest, true_pos, false_pos, out,
                         [acc EXCEPT !.warn = acc.warn \cup {label}])
          ELSE IF out[label] = -1
          THEN LabelLoop(rest, true_pos, false_pos, out,
                         [acc EXCEPT !.fatal = "caffe::ComputeAP"])
          ELSE LabelLoop(rest, true_pos, false_pos, out,
                         [acc EXCEPT !.APs = Put(acc.APs, label, out[label]),
                                     !.mAP = acc.mAP + out[label]])

\* Which of the three tables lacks the output index n ("" if none does), in
\* the order the loop body looks them up.
MissingTable(n) ==
  IF n \notin DOMAIN all_true_pos THEN "Missing output_blob true_pos"
  ELSE IF n \notin DOMAIN all_false_pos THEN "Missing output_blob false_pos"
  ELSE IF n \notin DOMAIN all_num_pos THEN "Missing output_blob num_pos"
  ELSE ""

\* for (int i = 0; i < all_true_pos.size(); ++i)
ReportBound == Cardinality(DOMAIN all_true_pos)

\* One iteration of the loop of lines 356-400, for the output index iter;
\* past the last index test_detection returns 0 to test.
test_detection_report ==
  /\ pc = "test_detection_report"
  /\ IF iter < ReportBound
     THEN IF MissingTable(iter) # ""
          THEN /\ Abort(MissingTable(iter))
               /\ UNCHANGED <<iter, APs, mAPs, warnings>>
          ELSE \E out \in [DOMAIN all_num_pos[iter] -> APOutcomes] :
               LET num_pos == all_num_pos[iter]
                   acc == LabelLoop(DOMAIN num_pos, all_true_pos[iter],
                                    all_false_pos[iter], out,
                                    [fatal |-> "", mAP |-> 0, warn |-> {},
                                     APs |-> <<>>])
               IN /\ warnings' = warnings \cup {<<iter, l>> : l \in acc.warn}
                  /\ APs' = Put(APs, iter, acc.APs)
                  /\ IF acc.fatal # ""
                     THEN /\ Abort(acc.fatal)
                          /\ UNCHANGED <<iter, mAPs>>
                     ELSE /\ mAPs' = Put(mAPs, iter,
                                         [num |-> acc.mAP,
                                          den |-> Cardinality(DOMAIN num_pos)])
                          /\ iter' = iter + 1
                          /\ UNCHANGED <<pc, fatal, exit_status>>
     ELSE /\ pc' = "test_done"
          /\ UNCHANGED <<iter, APs, mAPs, warnings, fatal, exit_status>>
  /\ UNCHANGED <<cmdVars, ret, log, fwd, all_true_pos, all_false_pos,
                 all_num_pos, clsVars, timeVars>>
  /\ Frame

---------------------------------------------------------------------------
(* test: the classification branch. *)

\* most scalars the output blobs hold in one forward pass
MaxCount == 2

\* The scalars of the modelled nets: one net puts 2.0 and 4.0 in its output
\* blobs, the other 1.50000023841857910 (0x3FC00002); the losses are 1.0
\* and 3.0.
ScoreVals == {{2 * FloatOne, 4 * FloatOne}, {3 * Pow2(24) + 8}}
LossVals == {FloatOne, 3 * FloatOne}

\* The scalars of a result with the blob each comes from, in the order of
\* the two nested loops (j over the blobs, k over the scalars of a blob).
RECURSIVE Flatten(_, _)
Flatten(result, j) ==
  IF j >= Len(result) THEN <<>>
  ELSE [k \in 1..Len(result[j + 1]) |-> <<j, result[j + 1][k]>>]
       \o Flatten(result, j + 1)

\* Accumulate with line 451 changed: the scalar of a later iteration
\* replaces the running sum instead of being added to it.
RECURSIVE Accumulate_assigning(_, _, _, _)
Accumulate_assigning(acc, flat, idx, first) ==
  IF idx > Len(flat) THEN acc
  ELSE LET score == flat[idx][2]
           j == flat[idx][1]
       IN Accumulate_assigning(
            IF first
            THEN [acc EXCEPT !.score = Append(acc.score, score),
                             !.id = Append(acc.id, j)]
            ELSE IF idx <= Len(acc.score)
            THEN [acc EXCEPT !.score[idx] = score]
            ELSE [acc EXCEPT !.oob = TRUE],
            flat, idx + 1, first)

\* Lines 445-452 for the scalars from position idx on: in iteration 0 the
\* scalar is appended, later it is added at idx; oob tells whether an idx
\* fell outside the vector.
RECURSIVE Accumulate(_, _, _, _)
Accumulate(acc, flat, idx, first) ==
  IF idx > Len(flat) THEN acc
  ELSE LET score == flat[idx][2]
           j == flat[idx][1]
       IN Accumulate(
            IF first
            THEN [acc EXCEPT !.score = Append(acc.score, score),
                             !.id = Append(acc.id, j)]
            ELSE IF idx <= Len(acc.score)
            THEN [acc EXCEPT !.score[idx] = float_add(acc.score[idx], score)]
            ELSE [acc EXCEPT !.oob = TRUE],
            flat, idx + 1, first)

\* One iteration of the loop of lines 437-458.  A write past the end of
\* test_score is undefined: the process dies, or the write lands outside
\* the vector and the run goes on.
test_forward ==
  /\ pc = "test_forward"
  /\ IF iter < FLAGS.iterations
     THEN \E k1 \in 0..MaxCount :
          \E k2 \in 0..(IF num_outputs > 1 THEN MaxCount - k1 ELSE 0) :
          \E b1 \in [1..k1 -> net_scores], b2 \in [1..k2 -> net_scores] :
          \E iter_loss \in LossVals :
          LET result == IF num_outputs > 1 THEN <<b1, b2>> ELSE <<b1>>
              acc == Accumulate([score |-> test_score,
                                 id |-> test_score_output_id, oob |-> FALSE],
                                Flatten(result, 0), 1, iter = 0)
          IN /\ fwd' = Append(fwd, [result |-> result, loss |-> iter_loss])
             /\ log' = Append(log, Ev("Forward", <<>>, <<>>))
             /\ \/ /\ loss' = float_add(loss, iter_loss)
                   /\ test_score' = acc.score
                   /\ test_score_output_id' = acc.id
                   /\ iter' = iter + 1
                   /\ UNCHANGED <<pc, fatal, exit_status>>
                \/ /\ acc.oob
                   /\ Abort("SIGSEGV")
                   /\ UNCHANGED <<loss, test_score, test_score_output_id, iter>>
     ELSE /\ pc' = "test_means"
          /\ UNCHANGED <<fwd, log, loss, test_score, test_score_output_id,
                         iter, fatal, exit_status>>
  /\ UNCHANGED <<cmdVars, ret, mean_score, detVars, timeVars>>
  /\ Frame

\* x / n where the one division is the whole computation (the mAP, the
\* times): the quotient is kept as its two operands.
Div(x, n) == [num |-> x, den |-> n]

\* Lines 459-473: the mean loss and the mean of every running sum.
test_means ==
  /\ pc = "test_means"
  /\ loss' = float_div(loss, FLAGS.iterations)
  /\ mean_score' = [k \in 1..Len(test_score) |->
                      float_div(test_score[k], FLAGS.iterations)]
  /\ pc' = "test_done"
  /\ UNCHANGED <<cmdVars, ret, fatal, exit_status, log, iter, fwd,
                 test_score, test_score_output_id, detVars, timeVars>>
  /\ Frame

\* The teardown and return 0.
test_done ==
  /\ pc = "test_done"
  /\ \E ocl \in BOOLEAN : log' = log \o Teardown(gpus, ocl)
  /\ ret' = 0
  /\ pc' = "returned"
  /\ UNCHANGED <<cmdVars, fatal, exit_status>>
  /\ Frame
  /\ NoEval

TestNext ==
  \/ test
  \/ test_gpus
  \/ test_devices
  \/ test_net
  \/ test_detection
  \/ test_detection_report
  \/ test_forward
  \/ test_means
  \/ test_done

\* The numbers of output blobs of the modelled nets.
NetOutputs == {1, 2}

\* The flags explored for the head of test, without iterations.
TestHeadFlags ==
  { [FlagDefaults EXCEPT !.model = m, !.weights = w, !.gpu = g,
                         !.detection = d, !.iterations = 0] :
      m \in {<<>>, <<"m">>}, w \in {<<>>, <<"w">>},
      g \in {<<>>, <<"0">>, <<"a">>}, d \in BOOLEAN }

\* The flags explored for the evaluation loops: on the CPU, up to two
\* detection and up to three classification iterations (three for the nets
\* with one output blob).
TestLoopFlags ==
  { [FlagDefaults EXCEPT !.model = <<"m">>, !.weights = <<"w">>,
                         !.detection = TRUE, !.iterations = n] :
      n \in {1, 2} }
  \cup
  { [FlagDefaults EXCEPT !.model = <<"m">>, !.weights = <<"w">>,
                         !.iterations = n] : n \in {1, 2, 3} }

\* The build the evaluation loops are explored with: CUDA without NCCL.
LoopBuild ==
  [CPU_ONLY |-> FALSE, USE_CUDA |-> TRUE, USE_NCCL |-> FALSE,
   USE_GREENTEA |-> FALSE, USE_LIBDNN |-> FALSE]

TestInit ==
  /\ Dispatched("test")
  /\ \/ /\ FLAGS \in TestHeadFlags
        /\ build \in Builds
        /\ numDevices \in 0..MaxDevices
     \/ /\ FLAGS \in TestLoopFlags
        /\ build = LoopBuild
        /\ numDevices = 0
  /\ num_outputs \in NetOutputs
  /\ net_scores \in IF FLAGS.detection \/ FLAGS.iterations = 0
                    THEN {{2 * FloatOne}} ELSE ScoreVals
  /\ FLAGS.iterations > 2 => num_outputs = 1
  /\ num_layers = 1
  /\ net_cost = [f |-> <<1>>, b |-> <<1>>, sync |-> 0]

SpecTest == TestInit /\ [][TestNext]_vars

---------------------------------------------------------------------------
(* time: benchmark the execution time of a model. *)

\* most layers of a benchmarked net
MaxLayers == 2
\* most microseconds one layer call takes
MaxTick == 2

\* get_phase_from_flags(default_value)
get_phase_from_flags(default_value) ==
  IF FLAGS.phase = "" THEN default_value
  ELSE IF FLAGS.phase = "TRAIN" THEN "TRAIN"
  ELSE IF FLAGS.phase = "TEST" THEN "TEST"
  ELSE "FATAL"

\* The CHECK and the phase at the head of time.
time ==
  /\ pc = "time"
  /\ IF ~(Len(FLAGS.model) > 0)
     THEN /\ Abort("Need a model definition to time.")
          /\ UNCHANGED phase
     ELSE IF get_phase_from_flags("TRAIN") = "FATAL"
     THEN /\ Abort("phase must be TRAIN or TEST")
          /\ UNCHANGED phase
     ELSE /\ phase' = get_phase_from_flags("TRAIN")
          /\ pc' = "time_gpus"
          /\ UNCHANGED <<fatal, exit_status>>
  /\ UNCHANGED <<cmdVars, ret, log, iter, fwd, detVars, clsVars, clock,
                 forward_time, backward_time, forward_time_per_layer,
                 backward_time_per_layer, time_report>>
  /\ Frame

time_gpus ==
  /\ pc = "time_gpus"
  /\ LET r == get_gpus(FLAGS.gpu, <<>>, build, numDevices) IN
     /\ gpus0' = <<>>
     /\ gpus' = r.gpus
     /\ IF r.fatal # ""
        THEN Abort(r.fatal)
        ELSE /\ pc' = "time_devices"
             /\ UNCHANGED <<fatal, exit_status>>
  /\ UNCHANGED <<FLAGS, solver_param, ret, log>>
  /\ Frame
  /\ NoEval

time_devices ==
  /\ pc = "time_devices"
  /\ log' = log \o SetDeviceAndMode(gpus, build)
  /\ pc' = "time_net"
  /\ UNCHANGED <<cmdVars, ret, fatal, exit_status>>
  /\ Frame
  /\ NoEval

\* Lines 510-539: the net, the clean forward pass and, in the TRAIN phase,
\* the clean backward pass; then the timers and the tables.  The clock
\* counts from total_timer.Start().
time_net ==
  /\ pc = "time_net"
  /\ log' = log \o <<Ev("Net", <<>>, FLAGS.model), Ev("net.Forward", <<>>, <<>>)>>
                \o (IF phase = "TRAIN" THEN <<Ev("net.Backward", <<>>, <<>>)>>
                    ELSE <<>>)
                \o <<Ev("Benchmark begins", <<>>, <<>>)>>
  /\ clock' = 0
  /\ forward_time_per_layer' = [l \in 1..num_layers |-> 0]
  /\ backward_time_per_layer' = [l \in 1..num_layers |-> 0]
  /\ forward_time' = 0
  /\ backward_time' = 0
  /\ iter' = 0
  /\ pc' = "time_iter"
  /\ UNCHANGED <<cmdVars, ret, fatal, exit_status, fwd, detVars, clsVars,
                 phase, time_report>>
  /\ Frame

RECURSIVE SumTo(_, _)
SumTo(s, n) == IF n = 0 THEN 0 ELSE s[n] + SumTo(s, n - 1)

\* A layer call, between the Start and the Stop of the timer of the layer
\* if FLAGS_lt.
Timed(call, l) ==
  IF FLAGS.lt
  THEN <<Ev("layer_timers.Start", <<l>>, <<>>), Ev(call, <<l>>, <<>>),
         Ev("layer_timers.Stop", <<l>>, <<>>)>>
  ELSE <<Ev(call, <<l>>, <<>>)>>

\* for (i = 0; i < layers.size(); ++i) layers[i]->Forward(...)
RECURSIVE ForwardCalls(_, _)
ForwardCalls(l, n) ==
  IF l < n THEN Timed("layer.Forward", l) \o ForwardCalls(l + 1, n)
  ELSE <<>>

\* The backward loop, but from the first layer to the last.
RECURSIVE BackwardCalls_ascending(_)
BackwardCalls_ascending(l) ==
  IF l >= 0 THEN BackwardCalls_ascending(l - 1) \o Timed("layer.Backward", l)
  ELSE <<>>

\* for (i = layers.size() - 1; i >= 0; --i) layers[i]->Backward(...)
RECURSIVE BackwardCalls(_)
BackwardCalls(l) ==
  IF l >= 0 THEN Timed("layer.Backward", l) \o BackwardCalls(l - 1)
  ELSE <<>>

\* Lines 557-561 and 574-579: if FLAGS_lt, the timer of every layer is read
\* and added to the table of the pass ("f" or "b").
RECURSIVE LayerReads(_, _, _)
LayerReads(pass, l, n) ==
  IF FLAGS.lt /\ l < n
  THEN <<Ev("layer_timers.MicroSeconds", <<l>>, <<pass>>)>>
       \o LayerReads(pass, l + 1, n)
  ELSE <<>>

\* Lines 574-579: for (i ...) { backward_time_per_layer[i] += the layer
\* timer; backward_time += backward_time_per_layer[i]; }
RECURSIVE BackwardSum(_, _, _)
BackwardSum(acc, l, n) ==
  IF l > n THEN acc
  ELSE LET v == acc.table[l] + net_cost.b[l]
       IN BackwardSum([table |-> [acc.table EXCEPT ![l] = v],
                       total |-> acc.total + v], l + 1, n)

\* One iteration of the loop of lines 541-583.  forward_timer is read after
\* the barrier; the layer timers hold the time of the calls they wrap.
time_iter ==
  /\ pc = "time_iter"
  /\ IF iter < FLAGS.iterations
     THEN LET fwd_us == SumTo(net_cost.f, num_layers) + net_cost.sync
              bwd_us == SumTo(net_cost.b, num_layers) + net_cost.sync
              bs == BackwardSum([table |-> backward_time_per_layer,
                                 total |-> backward_time], 1, num_layers)
          IN /\ forward_time' = forward_time + fwd_us
             /\ forward_time_per_layer' =
                  IF FLAGS.lt
                  THEN [l \in 1..num_layers |->
                          forward_time_per_layer[l] + net_cost.f[l]]
                  ELSE forward_time_per_layer
             /\ backward_time_per_layer' =
                  IF phase = "TRAIN" /\ FLAGS.lt THEN bs.table
                  ELSE backward_time_per_layer
             /\ backward_time' =
                  IF phase = "TRAIN" /\ FLAGS.lt THEN bs.total
                  ELSE backward_time
             /\ clock' = clock + fwd_us + (IF phase = "TRAIN" THEN bwd_us ELSE 0)
             /\ log' = log \o <<Ev("iter_timer.Start", <<>>, <<>>),
                                Ev("forward_timer.Start", <<>>, <<>>)>>
                           \o ForwardCalls(0, num_layers)
                           \o <<Ev("Synchronize", <<>>, <<>>),
                                Ev("forward_timer.MicroSeconds", <<>>, <<>>)>>
                           \o LayerReads("f", 0, num_layers)
                           \o (IF phase = "TRAIN"
                               THEN BackwardCalls(num_layers - 1)
                                    \o <<Ev("Synchronize", <<>>, <<>>)>>
                                    \o LayerReads("b", 0, num_layers)
                               ELSE <<>>)
                           \o <<Ev("iter_timer.MilliSeconds", <<>>, <<>>)>>
             /\ iter' = iter + 1
             /\ UNCHANGED pc
     ELSE /\ pc' = "time_report"
          /\ UNCHANGED <<iter, clock, log, forward_time, backward_time,
                         forward_time_per_layer, backward_time_per_layer>>
  /\ UNCHANGED <<cmdVars, ret, fatal, exit_status, fwd, detVars, clsVars,
                 phase, time_report>>
  /\ Frame

\* Lines 585-616: the per-layer averages when FLAGS_lt, the averages of the
\* passes, the total, the teardown and return 0.  Times are logged in ms.
time_report_step ==
  /\ pc = "time_report"
  /\ time_report' =
       [layers |-> IF FLAGS.lt
                   THEN [l \in 1..num_layers |->
                           [forward |-> Div(forward_time_per_layer[l],
                                            1000 * FLAGS.iterations),
                            backward |-> Div(backward_time_per_layer[l],
                                             1000 * FLAGS.iterations)]]
                   ELSE <<>>,
        forward |-> Div(forward_time, 1000 * FLAGS.iterations),
        backward |-> Div(backward_time, 1000 * FLAGS.iterations),
        average |-> Div(clock, 1000 * FLAGS.iterations),
        total |-> Div(clock, 1000)]
  /\ \E ocl \in BOOLEAN :
       log' = Append(log, Ev("Benchmark ends", <<>>, <<>>)) \o Teardown(gpus, ocl)
  /\ ret' = 0
  /\ pc' = "returned"
  /\ UNCHANGED <<cmdVars, fatal, exit_status, iter, fwd, detVars, clsVars,
                 phase, clock, forward_time, backward_time,
                 forward_time_per_layer, backward_time_per_layer>>
  /\ Frame

TimeNext ==
  \/ time
  \/ time_gpus
  \/ time_devices
  \/ time_net
  \/ time_iter
  \/ time_report_step

\* The nets explored for time: the number of layers and what each call and
\* each barrier takes; a layer call takes at least one microsecond.
TimedNets ==
  UNION { { [n |-> n, cost |-> [f |-> f, b |-> b, sync |-> s]] :
              f \in [1..n -> 1..MaxTick], b \in [1..n -> 1..MaxTick],
              s \in {0, 1} } : n \in 0..MaxLayers }

TimeHeadFlags ==
  { [FlagDefaults EXCEPT !.model = m, !.phase = ph, !.gpu = g,
                         !.iterations = 0] :
      m \in {<<>>, <<"m">>}, ph \in {"", "TRAIN", "TEST", "bogus"},
      g \in {<<>>, <<"0">>, <<"a">>} }

TimeLoopFlags ==
  { [FlagDefaults EXCEPT !.model = <<"m">>, !.phase = ph, !.lt = lt,
                         !.iterations = n] :
      ph \in {"", "TEST"}, lt \in BOOLEAN, n \in {1, 2} }

TimeInit ==
  /\ Dispatched("time")
  /\ num_outputs = 1
  /\ net_scores = {2 * FloatOne}
  /\ \/ /\ FLAGS \in TimeHeadFlags
        /\ build \in Builds
        /\ numDevices \in 0..MaxDevices
        /\ num_layers = 1
        /\ net_cost = [f |-> <<1>>, b |-> <<1>>, sync |-> 0]
     \/ /\ FLAGS \in TimeLoopFlags
        /\ build = LoopBuild
        /\ numDevices = 0
        /\ \E net \in TimedNets :
             /\ num_layers = net.n
             /\ net_cost = net.cost

SpecTime == TimeInit /\ [][TimeNext]_vars

---------------------------------------------------------------------------
(* autotune: tune the LibDNN convolution layers of a model. *)

autotune ==
  /\ pc = "autotune"
  /\ IF ~(Len(FLAGS.model) > 0)
     THEN Abort("Need a model definition to time.")
     ELSE /\ pc' = "autotune_gpus"
          /\ UNCHANGED <<fatal, exit_status>>
  /\ UNCHANGED <<cmdVars, ret, log>>
  /\ Frame
  /\ NoEval

autotune_gpus ==
  /\ pc = "autotune_gpus"
  /\ LET r == get_gpus(FLAGS.gpu, <<>>, build, numDevices) IN
     /\ gpus0' = <<>>
     /\ gpus' = r.gpus
     /\ IF r.fatal # ""
        THEN Abort(r.fatal)
        ELSE /\ pc' = "autotune_devices"
             /\ UNCHANGED <<fatal, exit_status>>
  /\ UNCHANGED <<FLAGS, solver_param, ret, log>>
  /\ Frame
  /\ NoEval

autotune_devices ==
  /\ pc = "autotune_devices"
  /\ log' = IF Len(gpus) = 0
            THEN Append(log, Ev("set_mode(CPU)", <<>>, <<>>))
            ELSE IF build.CPU_ONLY THEN log
            ELSE log \o <<Ev("SetDevices", gpus, <<>>),
                          Ev("SetDevice", <<gpus[1]>>, <<>>),
                          Ev("set_mode(GPU)", <<>>, <<>>),
                          Ev("set_solver_count", <<Len(gpus)>>, <<>>)>>
  /\ pc' = "autotune_signal"
  /\ UNCHANGED <<cmdVars, ret, fatal, exit_status>>
  /\ Frame
  /\ NoEval

autotune_signal ==
  /\ pc = "autotune_signal"
  /\ IF GetRequestedAction(FLAGS.sigint_effect) = "FATAL"
        \/ GetRequestedAction(FLAGS.sighup_effect) = "FATAL"
     THEN /\ Abort("Invalid signal effect")
          /\ UNCHANGED log
     ELSE /\ log' = Append(log, Ev("SignalHandler", <<>>, <<>>))
          /\ pc' = "autotune_net"
          /\ UNCHANGED <<fatal, exit_status>>
  /\ UNCHANGED <<cmdVars, ret>>
  /\ Frame
  /\ NoEval

\* for (i ...) under USE_LIBDNN: Tune the layers that are LibDNN
\* convolution layers (tunable says which are).
RECURSIVE TuneCalls(_, _, _)
TuneCalls(l, n, tunable) ==
  IF l >= n THEN <<>>
  ELSE (IF l \in tunable THEN <<Ev("layer.Tune", <<l>>, <<>>)>> ELSE <<>>)
       \o TuneCalls(l + 1, n, tunable)

\* The net, the loop over its layers, return 0.
autotune_net ==
  /\ pc = "autotune_net"
  /\ \E tunable \in SUBSET (0..(num_layers - 1)) :
       /\ build.USE_LIBDNN \/ tunable = {}
       /\ log' = Append(log, Ev("Net", <<>>, FLAGS.model))
                  \o TuneCalls(0, num_layers, tunable)
  /\ ret' = 0
  /\ pc' = "returned"
  /\ UNCHANGED <<cmdVars, fatal, exit_status>>
  /\ Frame
  /\ NoEval

AutotuneNext ==
  \/ autotune
  \/ autotune_gpus
  \/ autotune_devices
  \/ autotune_signal
  \/ autotune_net

---------------------------------------------------------------------------
(* The whole program: the static initializers, main, and the command. *)

\* argv[1]: the registered names and two that are not.
CommandNames ==
  {RegOrder[k] : k \in 1..Len(RegOrder)} \cup {"", "brew"}

\* The flags explored for the whole program, by command: the commands are
\* explored in depth by their own specifications.
ProgramFlags(name) ==
  IF name = "train"
  THEN { f \in TrainFlags : f.sighup_effect = "snapshot" /\ f.weights # <<"w">> }
  ELSE IF name = "test"
  THEN { [f EXCEPT !.iterations = 1] : f \in TestHeadFlags }
  ELSE IF name = "time"
  THEN { [f EXCEPT !.iterations = 1] : f \in TimeHeadFlags }
  ELSE IF name = "autotune"
  THEN { [FlagDefaults EXCEPT !.model = m, !.gpu = g, !.sigint_effect = si] :
           m \in {<<>>, <<"m">>}, g \in {<<>>, <<"0">>, <<"a">>},
           si \in {"stop", "bogus"} }
  ELSE { [FlagDefaults EXCEPT !.gpu = g] :
           g \in {<<>>, StrAll, <<"0">>, <<"1", ",", "0">>, <<"a">>} }

Init ==
  /\ build \in Builds
  /\ numDevices \in 0..MaxDevices
  /\ argc \in 1..3
  /\ argv1 \in IF argc = 2 THEN CommandNames ELSE {""}
  /\ FLAGS \in ProgramFlags(argv1)
  /\ NoNet
  /\ g_brew_map = {}
  /\ pc = "static_init"
  /\ brew = ""
  /\ ret = -1
  /\ exit_status = -1
  /\ fatal = ""
  /\ gpus0 = <<>>
  /\ gpus = <<>>
  /\ solver_param = NoSolverParam
  /\ log = <<>>
  /\ iter = 0
  /\ fwd = <<>>
  /\ all_true_pos = <<>>
  /\ all_false_pos = <<>>
  /\ all_num_pos = <<>>
  /\ APs = <<>>
  /\ mAPs = <<>>
  /\ warnings = {}
  /\ test_score = <<>>
  /\ test_score_output_id = <<>>
  /\ loss = 0
  /\ mean_score = <<>>
  /\ phase = ""
  /\ clock = 0
  /\ forward_time = 0
  /\ backward_time = 0
  /\ forward_time_per_layer = <<>>
  /\ backward_time_per_layer = <<>>
  /\ time_report = <<>>

MainNext ==
  \/ RegisterBrewFunction
  \/ main
  \/ main_dispatch
  \/ main_return
  \/ actions
  \/ device_query

Next ==
  \/ MainNext
  \/ TrainNext
  \/ TestNext
  \/ TimeNext
  \/ AutotuneNext

Spec == Init /\ [][Next]_vars

---------------------------------------------------------------------------
(* The device selector on its own: get_gpus applied to every specifier of  *)
(* up to MaxGpuLen characters, with an empty and a non-empty list.         *)

GpuStrings == UNION { [1..n -> GpuChars] : n \in 0..MaxGpuLen }

\* A caller: get_gpus(&gpus).
get_gpus_call ==
  /\ pc = "get_gpus"
  /\ LET r == get_gpus(FLAGS.gpu, gpus, build, numDevices) IN
     /\ gpus0' = gpus
     /\ gpus' = r.gpus
     /\ IF r.fatal # ""
        THEN Abort(r.fatal)
        ELSE /\ pc' = "got_gpus"
             /\ UNCHANGED <<fatal, exit_status>>
  /\ UNCHANGED <<FLAGS, solver_param, ret, log>>
  /\ Frame
  /\ NoEval

GpusInit ==
  /\ Dispatched("get_gpus")
  /\ build \in Builds
  /\ numDevices \in 0..MaxDevices
  /\ \E s \in GpuStrings : FLAGS = [FlagDefaults EXCEPT !.gpu = s]
  /\ NoNet

SpecGpus == GpusInit /\ [][get_gpus_call]_vars

---------------------------------------------------------------------------
(* The claims. *)

\* Whether the library call c has been made.
Called(c) == \E k \in 1..Len(log) : log[k].call = c

\* The calls that initialise a device, set the execution mode, construct a
\* solver or a net, or run a forward pass.
SideEffects ==
  {"SetDevices", "SetDevice", "set_mode(CPU)", "set_mode(GPU)",
   "set_solver_count", "CreateSolver", "Net", "Forward", "net.Forward",
   "layer.Forward"}

NoSideEffects == \A k \in 1..Len(log) : log[k].call \notin SideEffects

BothGiven == Len(FLAGS.snapshot) > 0 /\ Len(FLAGS.weights) > 0

ExclusionMessage ==
  "Give a snapshot to resume training or weights to finetune but not both."

\* C1: in train, when both -snapshot and -weights are given, the command
\* aborts at its head: it never gets past the CHECKs, so the solver file
\* is not read, no device is initialised, no mode is set, no solver is
\* constructed, and nothing is restored, copied or solved.
C1_SnapshotAndWeightsRejected ==
  (brew = "train" /\ BothGiven) =>
     /\ pc \in {"train", "aborted"}
     /\ log = <<>>
     /\ pc = "aborted" =>
          fatal \in {"Need a solver definition to train.", ExclusionMessage}

\* C1, its case: a train run with a solver, a snapshot and weights that
\* has been aborted by the exclusion CHECK.
C1_Witness ==
  /\ brew = "train"
  /\ BothGiven
  /\ Len(FLAGS.solver) > 0
  /\ pc = "aborted"
  /\ fatal = ExclusionMessage

\* Whether the build can run the multi-device solve.
HasCollective == build.USE_CUDA /\ build.USE_NCCL

\* C2: in train, in every build, with more than one device selected and no
\* collective-communication capability in the build, the run neither
\* reaches "Optimization Done." nor returns, and no single-device solve
\* runs: it ends in a fatal error.
C2_MultiDeviceWithoutCollectiveIsFatal ==
  (brew = "train" /\ Len(gpus) > 1 /\ ~HasCollective) =>
     /\ pc \notin {"train_done", "returned"}
     /\ ~Called("Solve")
     /\ ~Called("Optimization Done.")

\* C3: an unknown command name is looked up as the listing action with an
\* error line, no command runs, and the process exits nonzero; a
\* registered name exits 0 exactly when its function returned 0.
C3_UnknownCommandFailsClosed ==
  (argc = 2 /\ brew # "") =>
     /\ argv1 \notin g_brew_map =>
          /\ brew = "actions"
          /\ Called("LOG(ERROR) Unknown action")
          /\ pc \in {"actions", "returned", "exited"}
          /\ pc = "exited" => exit_status # 0
     /\ (argv1 \in g_brew_map /\ pc = "exited") =>
          (exit_status = 0 <=> ret = 0)

\* The diagnostics of the usage errors this file raises: a missing solver
\* or model, snapshot and weights together, a malformed device list, an
\* invalid signal effect.  (FLAGS_ap is not looked at in this file: it is
\* handed to caffe::ComputeAP at line 391, after the forward passes.)
UsageErrors ==
  {"Need a solver definition to train.", ExclusionMessage,
   "Need a model definition to score.", "Need model weights to score.",
   "Need a model definition to time.", "bad_lexical_cast",
   "Invalid signal effect"}

\* C4: a usage error aborts the command before any side effect: when the
\* abort happens no device has been initialised, no mode has been set, no
\* solver or net has been constructed and no forward pass has run.
C4_UsageErrorsHaveNoSideEffects ==
  (pc = "aborted" /\ fatal \in UsageErrors) => NoSideEffects

\* A detection evaluation.
DetMode == brew = "test" /\ FLAGS.detection

\* The rows the output blob j has held over the forward passes of results,
\* in arrival order.
RECURSIVE RowsSeen(_, _)
RowsSeen(results, j) ==
  IF results = <<>> THEN <<>>
  ELSE (IF j < Len(Head(results)) THEN Head(results)[j + 1] ELSE <<>>)
       \o RowsSeen(Tail(results), j)

IsSentinel(row) == static_cast_int(row[1]) = -1

LabelOf(row) == static_cast_int(row[2])

\* A detection row whose two flags are not both zero.
IsRecord(row) ==
  /\ ~IsSentinel(row)
  /\ ~(static_cast_int(row[4]) = 0 /\ static_cast_int(row[5]) = 0)

RECURSIVE SumIncrements(_, _)
SumIncrements(rows, l) ==
  IF rows = <<>> THEN 0
  ELSE (IF IsSentinel(Head(rows)) /\ LabelOf(Head(rows)) = l
        THEN static_cast_int(Head(rows)[3]) ELSE 0)
       + SumIncrements(Tail(rows), l)

SentinelLabels(rows) ==
  {LabelOf(rows[k]) : k \in {x \in 1..Len(rows) : IsSentinel(rows[x])}}

RecordLabels(rows) ==
  {LabelOf(rows[k]) : k \in {x \in 1..Len(rows) : IsRecord(rows[x])}}

\* The records of the label l in arrival order, each with its score and
\* the flag of column col.
RecordsOf(rows, l, col) ==
  LET sel == SelectSeq(rows, LAMBDA r : IsRecord(r) /\ LabelOf(r) = l)
  IN [k \in 1..Len(sel) |-> <<sel[k][3], static_cast_int(sel[k][col])>>]

\* C5: in a detection evaluation, after any number of forward passes, for
\* every output index j and label l: all_num_pos[j][l] exists exactly when
\* a sentinel row of (j, l) was seen and is the sum of the increments of
\* those rows; all_true_pos[j][l] and all_false_pos[j][l] exist exactly
\* when a row of (j, l) with a non-zero flag was seen and hold those rows
\* in arrival order; rows with both flags zero are in neither.
C5_AccumulatorsMatchRowsSeen ==
  DetMode =>
    /\ DOMAIN all_num_pos \subseteq 0..(num_outputs - 1)
    /\ DOMAIN all_true_pos = DOMAIN all_false_pos
    /\ DOMAIN all_true_pos \subseteq 0..(num_outputs - 1)
    /\ \A j \in 0..(num_outputs - 1) :
         LET rows == RowsSeen(fwd, j) IN
         /\ j \in DOMAIN all_num_pos <=> SentinelLabels(rows) # {}
         /\ j \in DOMAIN all_true_pos <=> RecordLabels(rows) # {}
         /\ DOMAIN At(all_num_pos, j) = SentinelLabels(rows)
         /\ DOMAIN At(all_true_pos, j) = RecordLabels(rows)
         /\ DOMAIN At(all_false_pos, j) = RecordLabels(rows)
         /\ \A l \in SentinelLabels(rows) :
              all_num_pos[j][l] = SumIncrements(rows, l)
         /\ \A l \in RecordLabels(rows) :
              /\ all_true_pos[j][l] = RecordsOf(rows, l, 4)
              /\ all_false_pos[j][l] = RecordsOf(rows, l, 5)

\* C5, its case: two forward passes whose sentinels of label 5 carry 3 and
\* 2, and one true positive of label 5 with the score 0.9.
C5_Witness ==
  /\ DetMode
  /\ Len(fwd) = 2
  /\ SumIncrements(RowsSeen(<<fwd[1]>>, 0), 5) = 3
  /\ SumIncrements(RowsSeen(<<fwd[2]>>, 0), 5) = 2
  /\ 0 \in DOMAIN all_num_pos /\ 0 \in DOMAIN all_true_pos
  /\ 5 \in DOMAIN all_num_pos[0] /\ 5 \in DOMAIN all_true_pos[0]
  /\ all_num_pos[0][5] = 5
  /\ all_true_pos[0][5] = << <<9, 1>> >>
  /\ all_false_pos[0][5] = << <<9, 0>> >>

\* The rows of the output index j over the whole run.
HasRecords(j) == RecordLabels(RowsSeen(fwd, j)) # {}

HasPositives(j) == SentinelLabels(RowsSeen(fwd, j)) # {}

\* The labels of j with a positives count and records, and those with a
\* positives count only.
Scored(j) ==
  SentinelLabels(RowsSeen(fwd, j)) \cap RecordLabels(RowsSeen(fwd, j))

Unscored(j) ==
  SentinelLabels(RowsSeen(fwd, j)) \ RecordLabels(RowsSeen(fwd, j))

RECURSIVE SumOver(_, _)
SumOver(f, S) ==
  IF S = {} THEN 0
  ELSE LET x == CHOOSE y \in S : TRUE IN f[x] + SumOver(f, S \ {x})

WarnedLabels(j) == {w[2] : w \in {x \in warnings : x[1] = j}}

MissingMessages ==
  {"Missing output_blob true_pos", "Missing output_blob false_pos",
   "Missing output_blob num_pos"}

\* What the report of the output index j has to be: the sum of the APs of
\* the scored labels over the number of labels with a positives count, and
\* a warning for each of the others.
ReportedAsClaimed(j) ==
  /\ j \in DOMAIN mAPs
  /\ j \in DOMAIN APs
  /\ DOMAIN APs[j] = Scored(j)
  /\ mAPs[j] = [num |-> SumOver(APs[j], Scored(j)),
                den |-> Cardinality(SentinelLabels(RowsSeen(fwd, j)))]
  /\ WarnedLabels(j) = Unscored(j)

C7_AggregatesNonZeroWithoutLayerTiming ==
  (brew = "time" /\ pc = "returned" /\ phase = "TRAIN" /\ ~FLAGS.lt
     /\ FLAGS.iterations >= 1 /\ num_layers >= 1) =>
     /\ time_report.layers = <<>>
     /\ time_report.forward.num # 0
     /\ time_report.backward.num # 0
     /\ time_report.total.num # 0

\* A classification evaluation.
ClsMode == brew = "test" /\ ~FLAGS.detection

\* The scalars of one forward pass in the order of the flattened index.
RECURSIVE Concat(_)
Concat(blobs) ==
  IF blobs = <<>> THEN <<>> ELSE Head(blobs) \o Concat(Tail(blobs))

Scalars(n) == Concat(fwd[n].result)

\* The sum of the scalar k over the first n forward passes, in the real
\* numbers and as the float that is rounded after every addition.
RECURSIVE ExactSum(_, _)
ExactSum(n, k) ==
  IF n = 0 THEN 0
  ELSE ExactSum(n - 1, k) + (IF k <= Len(Scalars(n)) THEN Scalars(n)[k] ELSE 0)

RECURSIVE FloatSum(_, _)
FloatSum(n, k) ==
  IF n = 0 THEN 0
  ELSE IF k <= Len(Scalars(n))
  THEN float_add(FloatSum(n - 1, k), Scalars(n)[k])
  ELSE FloatSum(n - 1, k)

RECURSIVE ExactLoss(_)
ExactLoss(n) == IF n = 0 THEN 0 ELSE ExactLoss(n - 1) + fwd[n].loss

RECURSIVE FloatLoss(_)
FloatLoss(n) ==
  IF n = 0 THEN 0 ELSE float_add(FloatLoss(n - 1), fwd[n].loss)

\* No forward pass has more scalars than the first: no running sum is
\* addressed outside test_score.
NoOverrun == \A n \in 1..Len(fwd) : Len(Scalars(n)) <= Len(Scalars(1))

Identical == \A n \in 1..Len(fwd) : fwd[n] = fwd[1]

\* Every multiple j * x, j <= n, is a float.
Representable(x, n) == \A j \in 1..n : float_div(j * x, 1) = j * x

ForwardCount == Cardinality({k \in 1..Len(log) : log[k].call = "Forward"})

\* A classification evaluation of N >= 1 iterations that has reported.
Reported ==
  /\ ClsMode
  /\ pc \in {"test_done", "returned"}
  /\ FLAGS.iterations >= 1
  /\ NoOverrun

RECURSIVE RefScan(_, _, _, _, _, _)
RefScan(s, k, sign, val, none, ids) ==
  LET done == Append(ids, IF sign = "-" THEN 0 - val ELSE val) IN
  IF k > Len(s)
  THEN IF none THEN [ok |-> FALSE, ids |-> ids] ELSE [ok |-> TRUE, ids |-> done]
  ELSE IF s[k] = ","
  THEN IF none THEN [ok |-> FALSE, ids |-> ids]
       ELSE RefScan(s, k + 1, "", 0, TRUE, done)
  ELSE IF s[k] \in {"-", "+"}
  THEN IF none /\ sign = "" THEN RefScan(s, k + 1, s[k], 0, TRUE, ids)
       ELSE [ok |-> FALSE, ids |-> ids]
  ELSE IF IsDigit(s[k])
  THEN RefScan(s, k + 1, sign, 10 * val + DigitVal(s[k]), FALSE, ids)
  ELSE [ok |-> FALSE, ids |-> ids]

RefList(s) == RefScan(s, 1, "", 0, TRUE, <<>>)

\* 0..count-1 in ascending order
Ascending(count) == [k \in 1..count |-> k - 1]

\* get_gpus has been called and is over.
Resolved == brew = "get_gpus" /\ pc # "get_gpus"

\* The call touched nothing but the list.
OnlyTheListChanged ==
  /\ FLAGS = [FlagDefaults EXCEPT !.gpu = FLAGS.gpu]
  /\ solver_param = NoSolverParam
  /\ log = <<>>
  /\ ret = -1

\* C9 as stated: resolution is the reference mapping for every specifier,
\* in every build: "" gives the empty list, "all" gives 0..count-1
\* ascending, a well-formed list gives its integers in input order with
\* duplicates, appended to the caller's list, and nothing else changes.
C9_ResolutionIsTheReferenceMapping ==
  Resolved =>
    /\ OnlyTheListChanged
    /\ (FLAGS.gpu = <<>> /\ gpus0 = <<>>) => (pc = "got_gpus" /\ gpus = <<>>)
    /\ FLAGS.gpu = StrAll =>
         (pc = "got_gpus" /\ gpus = gpus0 \o Ascending(numDevices))
    /\ (FLAGS.gpu # StrAll /\ RefList(FLAGS.gpu).ok) =>
         /\ pc = "got_gpus"
         /\ gpus = gpus0 \o RefList(FLAGS.gpu).ids
         /\ Len(gpus) = Len(gpus0) + Len(split(FLAGS.gpu))

\* C9, amended: the same, but "all" gives 0..count-1 only in a build with
\* device support and is fatal in a CPU_ONLY build; "" with a list that
\* already holds ids is fatal; a specifier that is neither "all" nor a
\* well-formed list ends the process.
C9_ResolutionIsTheReferenceMappingPerBuild ==
  Resolved =>
    /\ OnlyTheListChanged
    /\ pc \in {"got_gpus", "aborted"}
    /\ FLAGS.gpu = <<>> =>
         IF gpus0 = <<>> THEN pc = "got_gpus" /\ gpus = <<>>
         ELSE pc = "aborted" /\ fatal = "CHECK_EQ(gpus->size(), 0)"
    /\ FLAGS.gpu = StrAll =>
         IF build.CPU_ONLY THEN pc = "aborted" /\ fatal = "NO_GPU"
         ELSE pc = "got_gpus" /\ gpus = gpus0 \o Ascending(numDevices)
    /\ (FLAGS.gpu # StrAll /\ RefList(FLAGS.gpu).ok) =>
         /\ pc = "got_gpus"
         /\ gpus = gpus0 \o RefList(FLAGS.gpu).ids
         /\ Len(gpus) = Len(gpus0) + Len(split(FLAGS.gpu))
    /\ (FLAGS.gpu \notin {<<>>, StrAll} /\ ~RefList(FLAGS.gpu).ok) =>
         (pc = "aborted" /\ fatal = "bad_lexical_cast")

\* C9, its case: "1,1" resolved onto a list that held 7.
C9_Witness ==
  /\ Resolved
  /\ pc = "got_gpus"
  /\ FLAGS.gpu = <<"1", ",", "1">>
  /\ gpus0 = <<7>>
  /\ gpus = <<7, 1, 1>>

\* C10: when a detection evaluation of at least one forward pass ends
\* without a fatal error, a mean average precision has been reported for
\* every output index of the net; an index without records is never left
\* out silently.
C10_EveryOutputIndexIsReportedOrFatal ==
  (DetMode /\ Len(fwd) >= 1 /\ pc \in {"test_done", "returned"}) =>
     \A j \in 0..(num_outputs - 1) : j \in DOMAIN mAPs


\* A later forward pass produced another number of scalars than the first.
Mismatch ==
  \E n \in 2..Len(fwd) : Len(Scalars(n)) # Len(Scalars(1))

\* C11: in a classification evaluation whose iteration 0 produced at least
\* one scalar, the running sums are as many as the scalars of iteration 0
\* after every iteration, and a later iteration with another number of
\* scalars is detected: the run is stopped with a diagnostic (not by a
\* fault of an access outside test_score) and does not go on with some
\* sums not updated.
C11_ShapeMismatchFailsFast ==
  (ClsMode /\ Len(fwd) >= 1 /\ Len(Scalars(1)) >= 1) =>
     /\ Len(test_score) = Len(Scalars(1))
     /\ Len(test_score_output_id) = Len(Scalars(1))
     /\ Mismatch => (pc = "aborted" /\ fatal # "SIGSEGV")

\* ---------------------------------------------------------------------
\* C12
\* ---------------------------------------------------------------------

\* The place of "*** Benchmark begins ***" in the call log.
BeginsAt == CHOOSE p \in 1..Len(log) : log[p].call = "Benchmark begins"

IsNetPass(e) == e.call \in {"net.Forward", "net.Backward"}

IsLayerCall(e) == e.call \in {"layer.Forward", "layer.Backward"}

IsBarrier(e) == e.call = "Synchronize"

\* A read of a layer timer that is added to backward_time.
IsBackwardRead(e) == e.call = "layer_timers.MicroSeconds" /\ e.s = <<"b">>

IsOrdered(e) ==
  IsLayerCall(e) \/ IsBarrier(e) \/ e.call = "forward_timer.MicroSeconds"

\* The layer calls, barriers and reads of the forward time since the
\* benchmark began.
TimedEvents == SelectSeq(SubSeq(log, BeginsAt + 1, Len(log)), IsOrdered)

\* One timed iteration as the claim orders it.
ClaimedIteration ==
  [k \in 1..num_layers |-> Ev("layer.Forward", <<k - 1>>, <<>>)]
  \o <<Ev("Synchronize", <<>>, <<>>),
       Ev("forward_timer.MicroSeconds", <<>>, <<>>)>>
  \o (IF phase = "TRAIN"
      THEN [k \in 1..num_layers |->
              Ev("layer.Backward", <<num_layers - k>>, <<>>)]
           \o <<Ev("Synchronize", <<>>, <<>>)>>
      ELSE <<>>)

RECURSIVE Repeat(_, _)
Repeat(seq, n) == IF n = 0 THEN <<>> ELSE seq \o Repeat(seq, n - 1)

\* The read at p comes after a barrier that closes a backward loop: going
\* back from p, the first barrier or layer call is a barrier, and the first
\* one before it is a backward call.
AfterBackwardBarrier(p) ==
  \E b \in 1..(p - 1) : \E q \in (b + 1)..(p - 1) :
     /\ log[b].call = "layer.Backward"
     /\ IsBarrier(log[q])
     /\ \A r \in (b + 1)..(p - 1) :
           r # q => ~(IsLayerCall(log[r]) \/ IsBarrier(log[r]))

\* C12: once the benchmark has begun, the call log holds, before the begin,
\* one forward pass of the net and one backward pass iff the phase is
\* TRAIN and no layer call or barrier; after it, for every iteration run so
\* far, the forward calls of layers 0..L-1 in this order, one barrier, the
\* read of the forward time and, iff the phase is TRAIN, the backward
\* calls of layers L-1..0 in this order and one barrier; every read that is
\* added to the backward time follows the barrier of a backward loop; no
\* backward call is made in another phase.
C12_BenchmarkEventsAreOrdered ==
  Called("Benchmark begins") =>
     /\ SelectSeq(SubSeq(log, 1, BeginsAt - 1), IsNetPass)
          = <<Ev("net.Forward", <<>>, <<>>)>>
            \o (IF phase = "TRAIN" THEN <<Ev("net.Backward", <<>>, <<>>)>>
                ELSE <<>>)
     /\ \A p \in 1..Len(log) :
           /\ IsNetPass(log[p]) => p < BeginsAt
           /\ (IsOrdered(log[p]) \/ IsBackwardRead(log[p])) => p > BeginsAt
           /\ IsBackwardRead(log[p]) => AfterBackwardBarrier(p)
     /\ TimedEvents = Repeat(ClaimedIteration, iter)
     /\ phase # "TRAIN" => ~Called("layer.Backward")

\* Two timed iterations of a net of two layers in the TRAIN phase with
\* per-layer timing were run and reported.
C12_Witness ==
  /\ pc = "returned"
  /\ Called("Benchmark ends")
  /\ phase = "TRAIN"
  /\ num_layers = 2
  /\ iter = 2
  /\ FLAGS.lt
  /\ \E p \in 1..Len(log) : IsBackwardRead(log[p])

\* ---------------------------------------------------------------------
\* C13
\* ---------------------------------------------------------------------

\* The calls of train the claim orders.
IsTrainStep(e) ==
  e.call \in {"set_mode(CPU)", "SetDevices", "SetDevice", "set_solver_count",
              "CreateSolver", "SetActionFunction", "Restore",
              "net.CopyTrainedLayersFrom", "test_nets.CopyTrainedLayersFrom",
              "Solve", "NCCL.Run", "Optimization Done."}

TrainSteps == SelectSeq(log, IsTrainStep)

\* The steps of a whole train run as the claim orders them, for the
\* DeviceSet gpus and the flags of the run.
ClaimedTrainSteps ==
  (IF Len(gpus) > 0
   THEN <<Ev("SetDevices", gpus, <<>>), Ev("SetDevice", <<gpus[1]>>, <<>>),
          Ev("set_solver_count", <<Len(gpus)>>, <<>>)>>
   ELSE <<Ev("set_mode(CPU)", <<>>, <<>>)>>)
  \o <<Ev("CreateSolver", <<>>, <<>>), Ev("SetActionFunction", <<>>, <<>>)>>
  \o (IF Len(FLAGS.snapshot) > 0
      THEN <<Ev("Restore", <<>>, FLAGS.snapshot)>>
      ELSE IF Len(FLAGS.weights) > 0
      THEN CopyLayers(FLAGS.weights, solver_param.test_nets)
      ELSE <<>>)
  \o <<Ev(IF Len(gpus) <= 1 THEN "Solve" ELSE "NCCL.Run", gpus, FLAGS.snapshot),
       Ev("Optimization Done.", <<>>, <<>>)>>

IsPrefix(a, b) == Len(a) <= Len(b) /\ a = SubSeq(b, 1, Len(a))

\* C13: at every point of a train run the ordered calls made so far are the
\* first ones of: the initialisation of the devices, the choice of the
\* first id and the solver count if the DeviceSet is not empty (CPU mode
\* otherwise); one CreateSolver; SetActionFunction; Restore iff a snapshot
\* was given, the weight copy iff only weights were given; one solve,
\* Solve if there is at most one device and the multi-device run
\* otherwise; "Optimization Done.".  A run that has returned has made all
\* of them.
C13_TrainStepsAreOrdered ==
  /\ IsPrefix(TrainSteps, ClaimedTrainSteps)
  /\ pc = "returned" => TrainSteps = ClaimedTrainSteps

====
